---- MODULE Spec2Model ----
(***************************************************************************)
(* Model of the `milliseconds` library: integer arithmetic on POSIX        *)
(* timestamps expressed in milliseconds since the epoch.                    *)
(*                                                                         *)
(* Every method of the class is a pure static function.  The state of the  *)
(* model is one call record: which method was called last, the arguments   *)
(* it received and what it returned or raised; dt is the datetime that     *)
(* the calendar bridge returned or received.                                *)
(***************************************************************************)
EXTENDS Integers, Sequences, FiniteSets

VARIABLES op, timestamp, other, factor, n, ret, flag, exc, dt

vars == <<op, timestamp, other, factor, n, ret, flag, exc, dt>>

----------------------------------------------------------------------------
(* constants.py *)

second == 1000
minute == 60000
hour == 3600000
\* a day of 86000 seconds instead of 86400
day_typo == 86000 * 1000

day == 86400000

Units == {second, minute, hour, day}

----------------------------------------------------------------------------
(* Bounds of the model *)

\* timestamps are taken within MaxK units of the epoch, on either side
MaxK == 2
\* small timestamps -MaxSmall..MaxSmall, exercised with the small factors
MaxSmall == 7

\* distances from a unit boundary: just before, on, just after, inside
Offsets == {-1, 0, 1, 500, 10000}

Timestamps ==
    {k * u + d : k \in -MaxK..MaxK, u \in Units, d \in Offsets}
        \cup (-MaxSmall..MaxSmall)

\* int counts -MaxCount..MaxCount
MaxCount == 3
\* float counts num / den with num in -MaxNum..MaxNum
MaxNum == 7
Dens == {1, 2, 3, 4, 10}

\* factors a caller can pass to floor and ceil
PosFactors == Units \cup {1, 2, 3, 7}
BadFactors == {0, -1, -2, -3, 0 - minute}
Factors == PosFactors \cup BadFactors

----------------------------------------------------------------------------
(* Python integer arithmetic *)

\* a // b on Python ints: the quotient rounded toward negative infinity,
\* for a divisor of either sign (b = 0 raises ZeroDivisionError)
PyFloorDiv(a, b) ==
    IF b > 0 THEN a \div b ELSE (0 - a) \div (0 - b)

\* a % b on Python ints: a - b * (a // b), carries the sign of b
PyMod(a, b) == a - b * PyFloorDiv(a, b)

\* a quotient rounded toward zero, as C's integer division does
TruncDiv(a, b) ==
    LET absA == IF a < 0 THEN 0 - a ELSE a
        absB == IF b < 0 THEN 0 - b ELSE b
        q == absA \div absB
    IN  IF (a < 0) = (b < 0) THEN q ELSE 0 - q

----------------------------------------------------------------------------
(* floor and ceil *)

\* floor with a division that rounds toward zero
floor_trunc(ms, f) == TruncDiv(ms, f) * f

floor(ms, f) == PyFloorDiv(ms, f) * f

\* ceil without the test for an already aligned negative timestamp
ceil_no_aligned_test(ms, f) ==
    IF ms >= 0
    THEN PyFloorDiv(ms + f - 1, f) * f
    ELSE PyFloorDiv(ms, f) * f + f

\* ceil adding a whole factor on the non-negative path
ceil_off_by_one(ms, f) ==
    IF ms >= 0
    THEN PyFloorDiv(ms + f, f) * f
    ELSE LET floored == PyFloorDiv(ms, f) * f
         IN  IF ms = floored THEN floored ELSE floored + f

\* ceil with the two outcomes of the negative path exchanged
ceil_swapped(ms, f) ==
    IF ms >= 0
    THEN PyFloorDiv(ms + f - 1, f) * f
    ELSE LET floored == PyFloorDiv(ms, f) * f
         IN  IF ms = floored THEN floored + f ELSE floored

ceil(ms, f) ==
    IF ms >= 0
    THEN PyFloorDiv(ms + f - 1, f) * f
    ELSE LET floored == PyFloorDiv(ms, f) * f
         IN  IF ms = floored THEN floored ELSE floored + f

\* the expression ceil returns on its path for ms >= 0
ceil_non_negative_path(ms, f) == PyFloorDiv(ms + f - 1, f) * f

\* the expression ceil returns on its path for ms < 0
ceil_negative_path(ms, f) ==
    LET floored == PyFloorDiv(ms, f) * f
    IN  IF ms = floored THEN floored ELSE floored + f

----------------------------------------------------------------------------
(* Boundary stepping *)

\* last_second returning the start of the containing second
last_second_no_step(t) == floor(t, second)

last_second(t) == floor(t, second) - second

next_second(t) == floor(t, second) + second

last_minute(t) == floor(t, minute) - minute

\* next_minute rounding up instead of stepping past the containing minute
next_minute_ceil(t) == ceil(t, minute)

next_minute(t) == floor(t, minute) + minute

\* last_hour returning the start of the containing hour
last_hour_no_step(t) == floor(t, hour)

last_hour(t) == floor(t, hour) - hour

next_hour(t) == floor(t, hour) + hour

\* last_day stepping back from the rounded-up day
last_day_ceil(t) == ceil(t, day) - day

last_day(t) == floor(t, day) - day

next_day(t) == floor(t, day) + day

----------------------------------------------------------------------------
(* Alignment checks *)

is_valid_second(t) == PyMod(t, second) = 0

is_valid_minute(t) == PyMod(t, minute) = 0

\* is_valid_hour testing against the wrong unit
is_valid_hour_minute(t) == PyMod(t, minute) = 0

is_valid_hour(t) == PyMod(t, hour) = 0

is_valid_day(t) == PyMod(t, day) = 0

----------------------------------------------------------------------------
(* Same-bucket comparison *)

\* is_same_second over a floor that rounds toward zero
is_same_second_trunc(t1, t2) ==
    floor_trunc(t1, second) = floor_trunc(t2, second)

is_same_second(t1, t2) == floor(t1, second) = floor(t2, second)

is_same_minute(t1, t2) == floor(t1, minute) = floor(t2, minute)

is_same_hour(t1, t2) == floor(t1, hour) = floor(t2, hour)

is_same_day(t1, t2) == floor(t1, day) = floor(t2, day)

----------------------------------------------------------------------------
(* Python floats: IEEE-754 binary64, round to nearest, ties to even *)

\* significant binary digits of a float
Precision == 53

\* Natural numbers wider than the model checker's integers are kept as
\* sequences of limbs of LimbBits binary digits, least significant limb
\* first, without leading zero limbs; the empty sequence is 0.
LimbBits == 15
Base == 2 ^ LimbBits

RECURSIVE NatLimbs(_)
NatLimbs(k) ==
    IF k = 0 THEN <<>> ELSE <<k % Base>> \o NatLimbs(k \div Base)

RECURSIVE LimbsNat(_)
LimbsNat(X) ==
    IF X = <<>> THEN 0 ELSE X[1] + Base * LimbsNat(Tail(X))

RECURSIVE Norm(_)
Norm(X) ==
    IF X = <<>> \/ X[Len(X)] # 0 THEN X ELSE Norm(SubSeq(X, 1, Len(X) - 1))

\* number of binary digits of X
BitLen(X) ==
    IF X = <<>> THEN 0
    ELSE LimbBits * (Len(X) - 1)
            + (CHOOSE k \in 1..LimbBits :
                   2 ^ (k - 1) <= X[Len(X)] /\ X[Len(X)] < 2 ^ k)

\* binary digit i of X, digit 0 being the least significant
Bit(X, i) ==
    LET j == (i \div LimbBits) + 1
    IN  IF j > Len(X) THEN 0 ELSE (X[j] \div 2 ^ (i % LimbBits)) % 2

\* is X mod 2^k different from 0
LowNonZero(X, k) ==
    \E i \in 1..Len(X) :
        /\ (i - 1) * LimbBits < k
        /\ IF i * LimbBits <= k
           THEN X[i] # 0
           ELSE X[i] % 2 ^ (k - (i - 1) * LimbBits) # 0

\* X + Y + carry
RECURSIVE AddLimbs(_, _, _)
AddLimbs(X, Y, carry) ==
    IF X = <<>> /\ Y = <<>> THEN NatLimbs(carry)
    ELSE LET t == (IF X = <<>> THEN 0 ELSE X[1])
                    + (IF Y = <<>> THEN 0 ELSE Y[1]) + carry
         IN  <<t % Base>>
                 \o AddLimbs(IF X = <<>> THEN X ELSE Tail(X),
                             IF Y = <<>> THEN Y ELSE Tail(Y), t \div Base)

\* X * k + carry for one limb k
RECURSIVE MulLimb(_, _, _)
MulLimb(X, k, carry) ==
    IF X = <<>> THEN NatLimbs(carry)
    ELSE LET t == X[1] * k + carry
         IN  <<t % Base>> \o MulLimb(Tail(X), k, t \div Base)

\* X * Y
RECURSIVE MulLimbs(_, _)
MulLimbs(X, Y) ==
    IF Y = <<>> THEN <<>>
    ELSE Norm(AddLimbs(MulLimb(X, Y[1], 0), <<0>> \o MulLimbs(X, Tail(Y)), 0))

\* quotient and remainder of X by one limb q >= 1: long division from limb
\* i down, with r the remainder and acc the quotient limbs so far
RECURSIVE DivLimb(_, _, _, _, _)
DivLimb(X, q, i, r, acc) ==
    IF i = 0 THEN [quot |-> Norm(acc), rem |-> r]
    ELSE LET t == r * Base + X[i]
         IN  DivLimb(X, q, i - 1, t % q, <<t \div q>> \o acc)

\* X * 2^s
ShiftLeft(X, s) ==
    IF X = <<>> THEN X
    ELSE [i \in 1..(s \div LimbBits) |-> 0]
             \o MulLimb(X, 2 ^ (s % LimbBits), 0)

\* X \div 2^d
ShiftRight(X, d) ==
    LET j == d \div LimbBits
        r == d % LimbBits
    IN  IF j >= Len(X) THEN <<>>
        ELSE Norm([i \in 1..(Len(X) - j) |->
                      (X[i + j] \div 2 ^ r)
                          + (IF i + j + 1 <= Len(X)
                             THEN (X[i + j + 1] % 2 ^ r) * 2 ^ (LimbBits - r)
                             ELSE 0)])

\* A float is sign * mant * 2^exp with mant of at most Precision binary
\* digits; zero has the empty mant.
FloatZero == [sign |-> 1, mant |-> <<>>, exp |-> 0]

\* the float nearest to sign * X * 2^e, where inexact tells that the exact
\* value lies strictly between X * 2^e and (X + 1) * 2^e
RoundToFloat(sign, X, e, inexact) ==
    IF X = <<>> THEN FloatZero
    ELSE IF BitLen(X) <= Precision THEN [sign |-> sign, mant |-> X, exp |-> e]
    ELSE LET d == BitLen(X) - Precision
             keep == ShiftRight(X, d)
             half == Bit(X, d - 1) = 1
             more == inexact \/ LowNonZero(X, d - 1)
             up == half /\ (more \/ Bit(keep, 0) = 1)
             m == IF up THEN AddLimbs(keep, <<>>, 1) ELSE keep
         IN  IF BitLen(m) > Precision
             THEN [sign |-> sign, mant |-> ShiftRight(m, 1), exp |-> e + d + 1]
             ELSE [sign |-> sign, mant |-> m, exp |-> e + d]

\* float(k) for an int k below 2^Precision: exact
IntToFloat(k) ==
    IF k = 0 THEN FloatZero
    ELSE [sign |-> IF k < 0 THEN -1 ELSE 1,
          mant |-> NatLimbs(IF k < 0 THEN 0 - k ELSE k), exp |-> 0]

\* num / den on Python ints, 1 <= den < Base: the correctly rounded
\* quotient, which is also the float a decimal literal of that value denotes
TrueDiv(num, den) ==
    LET a == NatLimbs(IF num < 0 THEN 0 - num ELSE num)
        s == Precision + 2 + BitLen(NatLimbs(den))
        w == ShiftLeft(a, s)
        d == DivLimb(w, den, Len(w), 0, <<>>)
    IN  RoundToFloat(IF num < 0 THEN -1 ELSE 1, d.quot, 0 - s, d.rem # 0)

\* x * y on floats: the exact product rounded once
FloatMul(x, y) ==
    RoundToFloat(x.sign * y.sign, MulLimbs(x.mant, y.mant),
                 x.exp + y.exp, FALSE)

\* the integer part of X * 2^e
IntegerPart(X, e) ==
    IF e >= 0 THEN ShiftLeft(X, e) ELSE ShiftRight(X, 0 - e)

\* int(x) rounding toward negative infinity
FloatToIntFloor(x) ==
    LET k == LimbsNat(IntegerPart(x.mant, x.exp))
    IN  IF x.sign > 0 THEN k
        ELSE IF x.exp < 0 /\ LowNonZero(x.mant, 0 - x.exp)
             THEN 0 - (k + 1)
             ELSE 0 - k

\* int(x) on a float: the fraction is discarded, rounding toward zero
FloatToInt(x) == x.sign * LimbsNat(IntegerPart(x.mant, x.exp))

----------------------------------------------------------------------------
(* Calendar bridge *)

\* microseconds in a second, the resolution of a datetime
Million == 1000000

\* A timezone is its offset from UTC in seconds; the bridge is exercised
\* with UTC, a zone west and a zone east of it.
Zones == {0, -18000, 19800}

\* A datetime is the second count of its wall clock since 1970-01-01
\* 00:00:00 on that clock, its microsecond and the UTC offset of its zone.
NoDt == [wall |-> 0, microsecond |-> 0, utcoffset |-> 0]

\* X mod 2^k
LowBits(X, k) ==
    Norm([i \in 1..Len(X) |->
             IF i * LimbBits <= k THEN X[i]
             ELSE IF (i - 1) * LimbBits >= k THEN 0
             ELSE X[i] % 2 ^ (k - (i - 1) * LimbBits)])

\* the fractional part of x, with the sign of x: x - int(x) is exact
FractionOf(x) ==
    IF x.exp >= 0 \/ LowBits(x.mant, 0 - x.exp) = <<>> THEN FloatZero
    ELSE [sign |-> x.sign, mant |-> LowBits(x.mant, 0 - x.exp), exp |-> x.exp]

\* x rounded to the nearest int, halves to the even one
RoundHalfEven(x) ==
    IF x.exp >= 0 THEN FloatToInt(x)
    ELSE LET k == LimbsNat(ShiftRight(x.mant, 0 - x.exp))
             half == Bit(x.mant, 0 - x.exp - 1) = 1
             more == LowNonZero(x.mant, 0 - x.exp - 1)
             up == half /\ (more \/ k % 2 = 1)
         IN  x.sign * (IF up THEN k + 1 ELSE k)

\* datetime.fromtimestamp(x, tz): the float splits into whole seconds and a
\* fraction, the fraction times 1e6 rounds half to even to microseconds,
\* which are brought back into 0..999999, and the zone shifts the clock
fromtimestamp(x, tz) ==
    LET intpart == FloatToInt(x)
        us == RoundHalfEven(FloatMul(FractionOf(x), IntToFloat(Million)))
        secs == IF us >= Million THEN intpart + 1
                ELSE IF us < 0 THEN intpart - 1 ELSE intpart
        micro == IF us >= Million THEN us - Million
                 ELSE IF us < 0 THEN us + Million ELSE us
    IN  [wall |-> secs + tz, microsecond |-> micro, utcoffset |-> tz]

\* sign * A / 10^6 on ints, A a limb sequence: the correctly rounded
\* quotient; 10^6 is divided out as 1000 * 1000, one limb at a time
TrueDivMillion(sign, A) ==
    LET s == Precision + 2 + BitLen(NatLimbs(Million))
        w == ShiftLeft(A, s)
        d1 == DivLimb(w, 1000, Len(w), 0, <<>>)
        d2 == DivLimb(d1.quot, 1000, Len(d1.quot), 0, <<>>)
    IN  RoundToFloat(sign, d2.quot, 0 - s, d1.rem # 0 \/ d2.rem # 0)

\* d.timestamp() on an aware datetime: the microseconds elapsed since the
\* epoch, an exact int, divided by 10^6
timestamp_of(d) ==
    LET secs == d.wall - d.utcoffset
        whole == IF secs >= 0 THEN secs ELSE 0 - secs - 1
        part == IF secs >= 0 THEN d.microsecond ELSE Million - d.microsecond
    IN  TrueDivMillion(IF secs >= 0 THEN 1 ELSE -1,
                       Norm(AddLimbs(MulLimbs(NatLimbs(whole), NatLimbs(Million)),
                                     NatLimbs(part), 0)))

milliseconds(d) == FloatToInt(FloatMul(timestamp_of(d), IntToFloat(1000)))

time(ms, tz) == fromtimestamp(TrueDiv(ms, 1000), tz)

----------------------------------------------------------------------------
(* Increment and decrement *)

\* The count n is a Python int (kind "int", value num) or a Python float
\* (kind "float", the float that num / den evaluates to).
IntN(k) == [kind |-> "int", num |-> k, den |-> 1]
FloatN(a, b) == [kind |-> "float", num |-> a, den |-> b]

\* the parameter default, n = 1
DefaultN == IntN(1)

\* int(unit * cnt): with an int count the product is an exact int; with a
\* float count the unit converts to a float and the product is a float
Scaled(unit, cnt) ==
    IF cnt.kind = "int" THEN unit * cnt.num
    ELSE FloatToInt(FloatMul(IntToFloat(unit), TrueDiv(cnt.num, cnt.den)))

increment_second(t, cnt) == t + Scaled(second, cnt)

decrement_second(t, cnt) == t - Scaled(second, cnt)

increment_minute(t, cnt) == t + Scaled(minute, cnt)

\* decrement_minute adding the amount
decrement_minute_adds(t, cnt) == t + Scaled(minute, cnt)

decrement_minute(t, cnt) == t - Scaled(minute, cnt)

increment_hour(t, cnt) == t + Scaled(hour, cnt)

decrement_hour(t, cnt) == t - Scaled(hour, cnt)

increment_day(t, cnt) == t + Scaled(day, cnt)

decrement_day(t, cnt) == t - Scaled(day, cnt)

----------------------------------------------------------------------------
(* The calls *)

\* no count passed
NoN == [kind |-> "none", num |-> 0, den |-> 1]

\* counts a caller can pass to increment and decrement
Counts ==
    {IntN(k) : k \in -MaxCount..MaxCount}
        \cup {FloatN(a, b) : a \in -MaxNum..MaxNum, b \in Dens}

Init ==
    /\ op = "none"
    /\ dt = NoDt
    /\ timestamp = 0
    /\ other = 0
    /\ factor = 0
    /\ n = NoN
    /\ ret = 0
    /\ flag = FALSE
    /\ exc = "None"

\* The caller is between two calls when op = "none"; a call records its
\* arguments and its outcome, and Return hands the outcome to the caller.

\* a call name(ms, f) of one of the two rounding functions; the division by
\* a zero factor raises before any value is produced
Rounding(name, ms, f, value) ==
    /\ op' = name
    /\ dt' = NoDt
    /\ timestamp' = ms
    /\ other' = 0
    /\ factor' = f
    /\ n' = NoN
    /\ flag' = FALSE
    /\ IF f = 0
       THEN ret' = 0 /\ exc' = "ZeroDivisionError"
       ELSE ret' = value /\ exc' = "None"

CallFloor ==
    /\ op = "none"
    /\ \E ms \in Timestamps, f \in Factors :
           Rounding("floor", ms, f, floor(ms, f))

CallCeil ==
    /\ op = "none"
    /\ \E ms \in Timestamps, f \in Factors :
           Rounding("ceil", ms, f, ceil(ms, f))

\* a call name(t) that returns the timestamp value
Stepping(name, t, value) ==
    /\ op' = name
    /\ dt' = NoDt
    /\ timestamp' = t
    /\ other' = 0
    /\ factor' = 0
    /\ n' = NoN
    /\ ret' = value
    /\ flag' = FALSE
    /\ exc' = "None"

CallLastSecond ==
    /\ op = "none"
    /\ \E t \in Timestamps : Stepping("last_second", t, last_second(t))

CallNextSecond ==
    /\ op = "none"
    /\ \E t \in Timestamps : Stepping("next_second", t, next_second(t))

CallLastMinute ==
    /\ op = "none"
    /\ \E t \in Timestamps : Stepping("last_minute", t, last_minute(t))

CallNextMinute ==
    /\ op = "none"
    /\ \E t \in Timestamps : Stepping("next_minute", t, next_minute(t))

CallLastHour ==
    /\ op = "none"
    /\ \E t \in Timestamps : Stepping("last_hour", t, last_hour(t))

CallNextHour ==
    /\ op = "none"
    /\ \E t \in Timestamps : Stepping("next_hour", t, next_hour(t))

CallLastDay ==
    /\ op = "none"
    /\ \E t \in Timestamps : Stepping("last_day", t, last_day(t))

CallNextDay ==
    /\ op = "none"
    /\ \E t \in Timestamps : Stepping("next_day", t, next_day(t))

\* a call name(t1, t2) that returns the boolean value; the one-argument
\* checks leave t2 at 0
Testing(name, t1, t2, value) ==
    /\ op' = name
    /\ dt' = NoDt
    /\ timestamp' = t1
    /\ other' = t2
    /\ factor' = 0
    /\ n' = NoN
    /\ ret' = 0
    /\ flag' = value
    /\ exc' = "None"

CallIsValidSecond ==
    /\ op = "none"
    /\ \E t \in Timestamps : Testing("is_valid_second", t, 0, is_valid_second(t))

CallIsValidMinute ==
    /\ op = "none"
    /\ \E t \in Timestamps : Testing("is_valid_minute", t, 0, is_valid_minute(t))

CallIsValidHour ==
    /\ op = "none"
    /\ \E t \in Timestamps : Testing("is_valid_hour", t, 0, is_valid_hour(t))

CallIsValidDay ==
    /\ op = "none"
    /\ \E t \in Timestamps : Testing("is_valid_day", t, 0, is_valid_day(t))

CallIsSameSecond ==
    /\ op = "none"
    /\ \E t1 \in Timestamps, t2 \in Timestamps :
           Testing("is_same_second", t1, t2, is_same_second(t1, t2))

CallIsSameMinute ==
    /\ op = "none"
    /\ \E t1 \in Timestamps, t2 \in Timestamps :
           Testing("is_same_minute", t1, t2, is_same_minute(t1, t2))

CallIsSameHour ==
    /\ op = "none"
    /\ \E t1 \in Timestamps, t2 \in Timestamps :
           Testing("is_same_hour", t1, t2, is_same_hour(t1, t2))

CallIsSameDay ==
    /\ op = "none"
    /\ \E t1 \in Timestamps, t2 \in Timestamps :
           Testing("is_same_day", t1, t2, is_same_day(t1, t2))


\* a call name(t, x) or name(t) of an increment or decrement; a call without
\* a count runs the body with the parameter's default
Counted(name, t, x, value) ==
    /\ op' = name
    /\ dt' = NoDt
    /\ timestamp' = t
    /\ other' = 0
    /\ factor' = 0
    /\ n' = x
    /\ ret' = value
    /\ flag' = FALSE
    /\ exc' = "None"

Passed(x) == IF x = NoN THEN DefaultN ELSE x

CallIncrementSecond ==
    /\ op = "none"
    /\ \E x \in Counts \cup {NoN}, t \in Timestamps :
           Counted("increment_second", t, x, increment_second(t, Passed(x)))

CallDecrementSecond ==
    /\ op = "none"
    /\ \E x \in Counts \cup {NoN}, t \in Timestamps :
           Counted("decrement_second", t, x, decrement_second(t, Passed(x)))

CallIncrementMinute ==
    /\ op = "none"
    /\ \E x \in Counts \cup {NoN}, t \in Timestamps :
           Counted("increment_minute", t, x, increment_minute(t, Passed(x)))

CallDecrementMinute ==
    /\ op = "none"
    /\ \E x \in Counts \cup {NoN}, t \in Timestamps :
           Counted("decrement_minute", t, x, decrement_minute(t, Passed(x)))

CallIncrementHour ==
    /\ op = "none"
    /\ \E x \in Counts \cup {NoN}, t \in Timestamps :
           Counted("increment_hour", t, x, increment_hour(t, Passed(x)))

CallDecrementHour ==
    /\ op = "none"
    /\ \E x \in Counts \cup {NoN}, t \in Timestamps :
           Counted("decrement_hour", t, x, decrement_hour(t, Passed(x)))

CallIncrementDay ==
    /\ op = "none"
    /\ \E x \in Counts \cup {NoN}, t \in Timestamps :
           Counted("increment_day", t, x, increment_day(t, Passed(x)))

CallDecrementDay ==
    /\ op = "none"
    /\ \E x \in Counts \cup {NoN}, t \in Timestamps :
           Counted("decrement_day", t, x, decrement_day(t, Passed(x)))

\* time(ms, tz) returns a datetime
CallTime ==
    /\ op = "none"
    /\ \E ms \in Timestamps, tz \in Zones :
           /\ op' = "time"
           /\ dt' = time(ms, tz)
           /\ timestamp' = ms
           /\ other' = 0
           /\ factor' = 0
           /\ n' = NoN
           /\ ret' = 0
           /\ flag' = FALSE
           /\ exc' = "None"

\* the datetime that time returned is passed on to milliseconds, which
\* returns a timestamp; the timestamp given to time stays on record
CallMilliseconds ==
    /\ op = "time"
    /\ op' = "milliseconds"
    /\ ret' = milliseconds(dt)
    /\ UNCHANGED <<dt, timestamp, other, factor, n, flag, exc>>

\* the caller takes the outcome; the library keeps nothing between calls
Return ==
    /\ op # "none"
    /\ op' = "none"
    /\ dt' = NoDt
    /\ timestamp' = 0
    /\ other' = 0
    /\ factor' = 0
    /\ n' = NoN
    /\ ret' = 0
    /\ flag' = FALSE
    /\ exc' = "None"

Next ==
    \/ CallFloor
    \/ CallCeil
    \/ CallLastSecond
    \/ CallNextSecond
    \/ CallLastMinute
    \/ CallNextMinute
    \/ CallLastHour
    \/ CallNextHour
    \/ CallLastDay
    \/ CallNextDay
    \/ CallIsValidSecond
    \/ CallIsValidMinute
    \/ CallIsValidHour
    \/ CallIsValidDay
    \/ CallIsSameSecond
    \/ CallIsSameMinute
    \/ CallIsSameHour
    \/ CallIsSameDay
    \/ CallIncrementSecond
    \/ CallDecrementSecond
    \/ CallIncrementMinute
    \/ CallDecrementMinute
    \/ CallIncrementHour
    \/ CallDecrementHour
    \/ CallIncrementDay
    \/ CallDecrementDay
    \/ CallTime
    \/ CallMilliseconds
    \/ Return

Spec == Init /\ [][Next]_vars

----------------------------------------------------------------------------
(* Properties *)

Returned(name) == op = name /\ exc = "None"

\* C1: for every ts and every factor f > 0, floor(ts, f) is an exact
\* multiple of f with floor(ts, f) <= ts < floor(ts, f) + f, i.e. the
\* greatest multiple of f that is <= ts (rounding toward minus infinity).
C1_FloorIsGreatestMultipleBelow ==
    (op = "floor" /\ factor > 0) =>
        /\ exc = "None"
        /\ ret % factor = 0
        /\ ret <= timestamp
        /\ timestamp < ret + factor

C1_Witness ==
    /\ Returned("floor")
    /\ timestamp = -50000
    /\ factor = minute
    /\ ret = -60000

\* C2: for every ts and every factor f > 0, ceil(ts, f) is an exact multiple
\* of f with ceil(ts, f) - f < ts <= ceil(ts, f), i.e. the smallest multiple
\* of f that is >= ts.
C2_CeilIsSmallestMultipleAbove ==
    (op = "ceil" /\ factor > 0) =>
        /\ exc = "None"
        /\ ret % factor = 0
        /\ ret - factor < timestamp
        /\ timestamp <= ret

C2_Witness ==
    /\ Returned("ceil")
    /\ timestamp = -50000
    /\ factor = minute
    /\ ret = 0

\* C3: floor and ceil called with a factor <= 0, for any ts, report an error
\* to the caller and never return a timestamp value.
C3_InvalidFactorIsReported ==
    (op \in {"floor", "ceil"} /\ factor <= 0) => exc # "None"

\* the granularity a per-unit method works at
UnitOf(name) ==
    CASE name \in {"last_second", "next_second", "is_valid_second",
                   "is_same_second", "increment_second", "decrement_second"}
             -> second
      [] name \in {"last_minute", "next_minute", "is_valid_minute",
                   "is_same_minute", "increment_minute", "decrement_minute"}
             -> minute
      [] name \in {"last_hour", "next_hour", "is_valid_hour",
                   "is_same_hour", "increment_hour", "decrement_hour"}
             -> hour
      [] name \in {"last_day", "next_day", "is_valid_day",
                   "is_same_day", "increment_day", "decrement_day"}
             -> day

LastOps == {"last_second", "last_minute", "last_hour", "last_day"}
NextOps == {"next_second", "next_minute", "next_hour", "next_day"}
IsValidOps ==
    {"is_valid_second", "is_valid_minute", "is_valid_hour", "is_valid_day"}
IsSameOps ==
    {"is_same_second", "is_same_minute", "is_same_hour", "is_same_day"}

C6_IsValidIffFloorFixes ==
    op \in IsValidOps =>
        LET g == UnitOf(op) IN
        /\ exc = "None"
        /\ flag <=> (floor(timestamp, g) = timestamp)
        /\ flag <=> (timestamp % g = 0)
        /\ flag <=> (timestamp = (timestamp \div g) * g)

C6_Witness ==
    /\ Returned("is_valid_hour")
    /\ timestamp = 0 - hour
    /\ flag

\* C7: for every granularity g and all ts1, ts2, is_same_<g>(ts1, ts2) is
\* true iff floor(ts1, factor(g)) = floor(ts2, factor(g)), i.e. iff both lie
\* in the same interval [k*factor(g), (k+1)*factor(g)); timestamps on
\* opposite sides of a boundary are never in the same bucket.
C7_IsSameIffSameBucket ==
    op \in IsSameOps =>
        LET g == UnitOf(op)
            k == timestamp \div g
        IN
        /\ exc = "None"
        /\ flag <=> (floor(timestamp, g) = floor(other, g))
        /\ flag <=> (k * g <= other /\ other < (k + 1) * g)
        /\ (other % g = 0 /\ timestamp < other) => ~flag

C7_Witness ==
    /\ Returned("is_same_second")
    /\ timestamp = -1
    /\ other = 0
    /\ ~flag

\* C8: for every ts and every factor f > 0, floor(floor(ts, f), f) equals
\* floor(ts, f) and ceil(ceil(ts, f), f) equals ceil(ts, f); floor and ceil
\* leave an aligned timestamp of any sign unchanged.
C8_FloorCeilIdempotent ==
    /\ (op = "floor" /\ factor > 0) =>
           /\ floor(ret, factor) = ret
           /\ (timestamp % factor = 0 => ret = timestamp)
    /\ (op = "ceil" /\ factor > 0) =>
           /\ ceil(ret, factor) = ret
           /\ (timestamp % factor = 0 => ret = timestamp)

C8_Witness ==
    /\ Returned("ceil")
    /\ factor = hour
    /\ timestamp = hour + 1
    /\ ret = 2 * hour
    /\ ceil(ret, factor) = 2 * hour

IncOps ==
    {"increment_second", "increment_minute", "increment_hour", "increment_day"}
DecOps ==
    {"decrement_second", "decrement_minute", "decrement_hour", "decrement_day"}

\* +1 for an increment, -1 for a decrement
Direction(name) == IF name \in IncOps THEN 1 ELSE -1

\* C9: for every granularity g, every ts and every integer count n,
\* increment_<g>(ts, n) equals ts + n*factor(g) and decrement_<g>(ts, n)
\* equals ts - n*factor(g) exactly, and omitting n is the same as n = 1.
\* The count is a Python int, or a float of integral value (2.0, 4 / 2)
\* whose product with the unit a float holds exactly.
C9_IntegerCountIsExact ==
    op \in IncOps \cup DecOps =>
        LET g == UnitOf(op)
            dir == Direction(op)
        IN
        /\ exc = "None"
        /\ n.kind = "int" => ret = timestamp + dir * n.num * g
        /\ n.kind = "none" => ret = timestamp + dir * g
        /\ (n.kind = "float" /\ n.num % n.den = 0) =>
               ret = timestamp + dir * (n.num \div n.den) * g

C9_Witness ==
    /\ Returned("decrement_minute")
    /\ n = IntN(-3)
    /\ timestamp = 0 - 2 * day - 1
    /\ ret = 0 - 2 * day - 1 + 3 * minute

\* C10: for a fractional count n = p/q, increment_<g>(ts, n) adds and
\* decrement_<g>(ts, n) subtracts the product factor(g)*n truncated toward
\* zero to an integer number of milliseconds.
C10_FractionalProductIsTruncated ==
    (op \in IncOps \cup DecOps /\ n.kind = "float") =>
        ret = timestamp + Direction(op) * TruncDiv(UnitOf(op) * n.num, n.den)

\* the per-unit methods, by granularity
LastAt(g, t) ==
    CASE g = second -> last_second(t) [] g = minute -> last_minute(t)
      [] g = hour -> last_hour(t) [] g = day -> last_day(t)

NextAt(g, t) ==
    CASE g = second -> next_second(t) [] g = minute -> next_minute(t)
      [] g = hour -> next_hour(t) [] g = day -> next_day(t)

IsValidAt(g, t) ==
    CASE g = second -> is_valid_second(t) [] g = minute -> is_valid_minute(t)
      [] g = hour -> is_valid_hour(t) [] g = day -> is_valid_day(t)

IsSameAt(g, t1, t2) ==
    CASE g = second -> is_same_second(t1, t2)
      [] g = minute -> is_same_minute(t1, t2)
      [] g = hour -> is_same_hour(t1, t2)
      [] g = day -> is_same_day(t1, t2)

IncrementAt(g, t, cnt) ==
    CASE g = second -> increment_second(t, cnt)
      [] g = minute -> increment_minute(t, cnt)
      [] g = hour -> increment_hour(t, cnt)
      [] g = day -> increment_day(t, cnt)

DecrementAt(g, t, cnt) ==
    CASE g = second -> decrement_second(t, cnt)
      [] g = minute -> decrement_minute(t, cnt)
      [] g = hour -> decrement_hour(t, cnt)
      [] g = day -> decrement_day(t, cnt)

\* C11: for every granularity g and every ts exactly on a g-boundary,
\* next_<g>(ts) - last_<g>(ts) equals 2 * factor(g), with last_<g>(ts) equal
\* to ts - factor(g) and next_<g>(ts) equal to ts + factor(g).
C11_StepsStraddleABoundary ==
    /\ (op \in LastOps /\ timestamp % UnitOf(op) = 0) =>
           LET g == UnitOf(op) IN
           /\ ret = timestamp - g
           /\ NextAt(g, timestamp) = timestamp + g
           /\ NextAt(g, timestamp) - ret = 2 * g
    /\ (op \in NextOps /\ timestamp % UnitOf(op) = 0) =>
           LET g == UnitOf(op) IN
           /\ ret = timestamp + g
           /\ LastAt(g, timestamp) = timestamp - g
           /\ ret - LastAt(g, timestamp) = 2 * g

C11_Witness ==
    /\ Returned("last_hour")
    /\ timestamp = 0 - hour
    /\ ret = 0 - 2 * hour
    /\ NextAt(hour, timestamp) = 0

C14_CeilPathsAgree ==
    (op = "ceil" /\ factor > 0) =>
        /\ exc = "None"
        /\ ret = IF timestamp % factor = 0
                 THEN floor(timestamp, factor)
                 ELSE floor(timestamp, factor) + factor
        /\ ceil_non_negative_path(timestamp, factor) = ret
        /\ ceil_negative_path(timestamp, factor) = ret

C14_Witness ==
    /\ Returned("ceil")
    /\ timestamp = -1
    /\ factor = 1
    /\ ret = -1
    /\ ceil_non_negative_path(timestamp, factor) = -1

\* C15: granularities nest: for units fine < coarse and every ts,
\* floor(floor(ts, fine), coarse) equals floor(ts, coarse); hence
\* is_same_<fine>(ts1, ts2) implies is_same_<coarse>(ts1, ts2) and
\* is_valid_<coarse>(ts) implies is_valid_<fine>(ts), negative ts included.
C15_GranularitiesNest ==
    /\ (op = "floor" /\ factor \in Units) =>
           \A coarse \in Units :
               factor < coarse =>
                   floor(ret, coarse) = floor(timestamp, coarse)
    /\ (op \in IsSameOps /\ flag) =>
           \A coarse \in Units :
               UnitOf(op) < coarse => IsSameAt(coarse, timestamp, other)
    /\ (op \in IsValidOps /\ flag) =>
           \A fine \in Units :
               fine < UnitOf(op) => IsValidAt(fine, timestamp)

C15_Witness ==
    /\ Returned("floor")
    /\ factor = hour
    /\ timestamp = 0 - day - 1
    /\ ret = 0 - day - hour
    /\ floor(ret, day) = 0 - 2 * day

\* C16: floor and ceil are monotone in the timestamp: for every f > 0 and
\* all ts1 <= ts2, also on either side of zero, floor(ts1, f) <=
\* floor(ts2, f) and ceil(ts1, f) <= ceil(ts2, f); and floor(ts, f) <=
\* ceil(ts, f) for every ts.
C16_FloorCeilMonotone ==
    /\ (op = "floor" /\ factor > 0) =>
           /\ \A t2 \in Timestamps :
                  /\ timestamp <= t2 => ret <= floor(t2, factor)
                  /\ t2 <= timestamp => floor(t2, factor) <= ret
           /\ ret <= ceil(timestamp, factor)
    /\ (op = "ceil" /\ factor > 0) =>
           /\ \A t2 \in Timestamps :
                  /\ timestamp <= t2 => ret <= ceil(t2, factor)
                  /\ t2 <= timestamp => ceil(t2, factor) <= ret
           /\ floor(timestamp, factor) <= ret

C16_Witness ==
    /\ Returned("ceil")
    /\ factor = minute
    /\ timestamp = -1
    /\ ret = 0
    /\ ceil(1, factor) = minute
    /\ ceil(0 - minute, factor) = 0 - minute

\* the count -n
Negated(cnt) == [cnt EXCEPT !.num = 0 - cnt.num]

\* C17: increment and decrement are inverses for the same count: for every
\* granularity g, every ts and every n, int or float of either sign,
\* decrement_<g>(increment_<g>(ts, n), n) and
\* increment_<g>(decrement_<g>(ts, n), n) equal ts, and decrement_<g>(ts, n)
\* equals increment_<g>(ts, -n).
C17_IncrementDecrementInverse ==
    /\ op \in IncOps =>
           LET g == UnitOf(op)
               cnt == Passed(n)
           IN
           /\ DecrementAt(g, ret, cnt) = timestamp
           /\ ret = DecrementAt(g, timestamp, Negated(cnt))
    /\ op \in DecOps =>
           LET g == UnitOf(op)
               cnt == Passed(n)
           IN
           /\ IncrementAt(g, ret, cnt) = timestamp
           /\ ret = IncrementAt(g, timestamp, Negated(cnt))

C17_Witness ==
    /\ Returned("decrement_hour")
    /\ n = FloatN(-1, 3)
    /\ timestamp = -1
    /\ ret = 1199999
    /\ IncrementAt(hour, ret, n) = -1

\* C12: round trip of the calendar bridge: for any millisecond timestamp ts,
\* negative ones included, and any timezone,
\* milliseconds.milliseconds(milliseconds.time(ts, zone)) equals ts.
C12_CalendarRoundTrip ==
    op = "milliseconds" => (exc = "None" /\ ret = timestamp)

====
